---- MODULE Spec2Model ----
(***************************************************************************)
(* A model of the glm-realtime-sdk client runtime.                         *)
(*                                                                         *)
(*  Part I  - MediaSourcePlayer (frontend, container-streaming playback):  *)
(*            the player object, the MediaSource / SourceBuffer units it   *)
(*            drives and the <audio> element it plays them on.             *)
(*  Part II - realtimeClient (golang): the websocket client, its lock,     *)
(*            its receive loops and the goroutines that call it.           *)
(*                                                                         *)
(*  Part III - ChatVAD (frontend): the segmenter of the microphone's       *)
(*            frames, with the voice activity detector that drives it.     *)
(*                                                                         *)
(*  Part IV - StreamPlayer and ChatBase (frontend): the player of either   *)
(*            format behind one interface, and the session that owns it.   *)
(*                                                                         *)
(* Durations and positions are counted in quarters of a second, so the     *)
(* 0.5 s auto-play threshold of the player is 2.                           *)
(***************************************************************************)
EXTENDS Integers, Sequences, FiniteSets, TLC

\* ------------------------------------------------------------------ bounds
MaxUnits == 2      \* MediaSource objects created by init()
MaxChunks == 3     \* chunks submitted through adaptBuffer()
ChunkDur == 1      \* audio in one chunk, in quarters of a second
MaxConns == 2      \* connections dialled successfully by Connect
MaxFrames == 2     \* frames the server sends on one connection
MaxSends == 2      \* events passed to Send on a connected client
MaxVadFrames == 7  \* frames the voice activity detector processes
MaxSwitches == 2   \* calls of setFormat with a format other than the current
MaxSpeech == 1     \* times the session is told that the user started speaking

\* ------------------------------------------------- values of the platform
NaNDuration == -1          \* MediaSource.duration of a closed source
InfDuration == 1000        \* MediaSource.duration === Infinity
MinPlayDuration == 2       \* 0.5 s, the threshold of sourceBufferOnUpdateEnd
UnityGain == 100           \* gain 1 of the capture, in percent
LouderGain == 18           \* gain 0.18, set by onPlayTTS in the louder mode

Units == 1..MaxUnits

\* The connections of the client, and the goroutines that call it.
Conns == 1..MaxConns
Callers == {"g1", "g2"}

VARIABLES
  \* fields of MediaSourcePlayer (0 stands for null)
  playing, ttsMediaSource, ttsSourceBuffer, sourceBufferResolver,
  bufferUpdating, bufferQueue, lastDuration, ttsEnded,
  \* the platform: the MediaSource objects with their SourceBuffer, the <audio>
  mediaSources, nUnits, audio,
  \* observation: what was submitted, what the backend accepted, what was played
  nSubmitted, handed, obs

playerVars == <<playing, ttsMediaSource, ttsSourceBuffer, sourceBufferResolver,
                bufferUpdating, bufferQueue, lastDuration, ttsEnded,
                mediaSources, nUnits, audio, nSubmitted, handed, obs>>

VARIABLES
  \* fields of realtimeClient (0 stands for nil)
  isConnected, conn, wg, lock,
  \* the websocket connections dialled, the WaitGroups made for them, how many
  conns, wgCount, nConns,
  \* the goroutines: one readWsMsg per connection, and the callers
  loops, callers,
  \* observation: the frames handed to onReceived, and a panic of the process
  delivered, panicked,
  \* observation: the frames the transport received from Send, the events
  \* passed to Send so far, and the last call that returned early or failed
  wire, nSent, outcome

sendVars == <<wire, nSent, outcome>>

clientVars == <<isConnected, conn, wg, lock, conns, wgCount, nConns, loops,
                callers, delivered, panicked, sendVars>>

VARIABLES
  \* fields of ChatVAD (and chatBase.speeching); a frame is its index in the
  \* microphone's stream, recordPCMPart the frames concatenated
  vadInstance, speeching, speechStart, aheadChunks, recordPCMPart,
  \* the detector: whether it takes the user to be speaking, the frames so
  \* far, and the signal it is about to give for the frame it just processed
  micSpeaking, nFrames, micSignal,
  \* observation: the utterance and the callbacks
  vadLog

vadVars == <<vadInstance, speeching, speechStart, aheadChunks, recordPCMPart,
             micSpeaking, nFrames, micSignal, vadLog>>

VARIABLES
  \* fields of StreamPlayer: the format, the chunks recorded, and the player
  \* it holds when that is a PCMPlayerManager (its pcm-player and what was
  \* fed to it)
  format, ttsChunks, pcmPlayer,
  \* fields of ChatBase, and the gain of userStream.gainNode in percent
  playBufferedTTS, userInterrupt, interruptLouder, gain,
  \* observation: the speech the session was told of, the resets and the
  \* response.cancel events that followed, the calls of setFormat with another
  \* format and the chunks submitted before the last of them
  chatLog

chatVars == <<format, ttsChunks, pcmPlayer, playBufferedTTS, userInterrupt,
              interruptLouder, gain, chatLog>>

vars == <<playerVars, clientVars, vadVars, chatVars>>

\* A MediaSource that init() has not created yet. Of a MediaSource: readyState
\* and duration; of its SourceBuffer: sb (none, attached, removed), updating,
\* the chunk pending in it, the end of its buffered range, and whether the
\* 'updateend' listener of append is registered on it. Observed of both: how
\* many chunks had been submitted when the unit was created (bornMark) and
\* when endOfStream sealed it (sealMark, -1 while it is not sealed).
NoUnit ==
  [readyState |-> "none", duration |-> NaNDuration, buffered |-> 0,
   sb |-> "none", updating |-> FALSE, pending |-> 0, listener |-> FALSE,
   bornMark |-> 0, sealMark |-> -1]

\* A MediaSource that was detached from the <audio> element: closed, with no
\* duration, no SourceBuffer and nothing buffered.
DeadUnit == [NoUnit EXCEPT !.readyState = "closed", !.sb = "removed"]

\* The state after `new MediaSourcePlayer(chatBase, options)`.
PlayerInit ==
  /\ playing = FALSE
  /\ ttsMediaSource = 0
  /\ ttsSourceBuffer = 0
  /\ sourceBufferResolver = FALSE
  /\ bufferUpdating = FALSE
  /\ bufferQueue = <<>>
  /\ lastDuration = 0
  /\ ttsEnded = FALSE
  /\ mediaSources = [u \in Units |-> NoUnit]
  /\ nUnits = 0
  /\ audio = [paused |-> TRUE, currentTime |-> 0, listening |-> FALSE,
              events |-> <<>>]
  /\ nSubmitted = 0
  /\ handed = <<>>
  /\ obs = [overlap |-> FALSE, disrupted |-> FALSE, endPos |-> 0,
            resumed |-> FALSE, resumePos |-> 0, resumeBuffered |-> 0,
            resumeEndPos |-> 0]

\* ------------------------------------------------ the platform (MSE, <audio>)

\* Comparisons of MediaSource.duration, which may be NaN or Infinity.
DurationGE(d, x) == d # NaNDuration /\ d >= x
DurationGT(d, x) == d # NaNDuration /\ d > x

\* MediaSource.activeSourceBuffers includes the unit's SourceBuffer once it has
\* received data.
IsActive(S, u) == S[u].sb = "attached" /\ S[u].duration # NaNDuration

\* Assigning audioElement.src detaches the MediaSource attached so far: it is
\* closed and its SourceBuffer is removed from it. An append pending on that
\* SourceBuffer still ends with an 'updateend'.
Detach(S, p) ==
  IF p = 0 THEN S
  ELSE [S EXCEPT ![p] = [DeadUnit EXCEPT !.updating = S[p].updating,
                                         !.pending = S[p].pending,
                                         !.listener = S[p].listener]]

\* SourceBuffer.appendBuffer throws when the buffer was removed from its parent,
\* when it is still updating, or when the platform rejects the data (quota).
AppendBufferThrows(S, b, reject) ==
  S[b].sb = "removed" \/ S[b].updating \/ reject

\* audioElement.play(): un-pauses and queues a 'play' event.
Play(a) ==
  IF a.paused THEN [a EXCEPT !.paused = FALSE, !.events = Append(@, "play")]
  ELSE a

\* ------------------------------------------------------- MediaSourcePlayer

\* A checkBufferUpdating() that looks at the queue alone.
checkBufferUpdatingQueueOnly == Len(bufferQueue) > 0

\* checkBufferUpdating()
checkBufferUpdating ==
  \/ bufferUpdating
  \/ (ttsSourceBuffer # 0 /\ mediaSources[ttsSourceBuffer].updating)
  \/ Len(bufferQueue) > 0

\* append(data), as a function of the values the caller has reached so far:
\* the platform S, bufferUpdating, sourceBufferResolver, and the observation.
\* `queued` tells whether the caller took the chunk from bufferQueue.
append(S, bu, res, h, o, data, queued, reject) ==
  IF ttsSourceBuffer = 0
  THEN [S |-> S, bufferUpdating |-> bu, resolver |-> res, handed |-> h, obs |-> o]
  ELSE LET b  == ttsSourceBuffer
           S1 == [S EXCEPT ![b].listener = TRUE]
           o1 == [o EXCEPT !.overlap = @ \/ (\E u \in Units : S[u].updating)]
       IN IF AppendBufferThrows(S1, b, reject)
          THEN [S |-> S1, bufferUpdating |-> bu, resolver |-> res, handed |-> h,
                obs |-> [o1 EXCEPT !.disrupted = TRUE]]
          ELSE [S |-> [S1 EXCEPT ![b].updating = TRUE,
                                 ![b].pending = data,
                                 ![b].readyState = "open"],
                bufferUpdating |-> TRUE, resolver |-> TRUE,
                handed |-> Append(h, [c |-> data, u |-> b, q |-> queued]),
                obs |-> o1]

\* adaptBuffer(data): queue the chunk or hand it to the backend.
adaptBuffer ==
  /\ nSubmitted < MaxChunks
  /\ nSubmitted' = nSubmitted + 1
  /\ IF checkBufferUpdating
     THEN /\ bufferQueue' = Append(bufferQueue, nSubmitted + 1)
          /\ UNCHANGED <<mediaSources, bufferUpdating, sourceBufferResolver,
                         handed, obs>>
     ELSE \E reject \in BOOLEAN :
            LET r == append(mediaSources, bufferUpdating, sourceBufferResolver,
                            handed, obs, nSubmitted + 1, FALSE, reject)
            IN /\ mediaSources' = r.S
               /\ bufferUpdating' = r.bufferUpdating
               /\ sourceBufferResolver' = r.resolver
               /\ handed' = r.handed
               /\ obs' = r.obs
               /\ UNCHANGED bufferQueue
  /\ UNCHANGED <<playing, ttsMediaSource, ttsSourceBuffer, lastDuration,
                 ttsEnded, nUnits, audio>>

\* adaptBuffer(data) called on the player (StreamPlayer.adaptBuffer).
AdaptBuffer ==
  /\ adaptBuffer
  /\ UNCHANGED <<clientVars, vadVars, chatVars>>

\* bufferQueue.pop() in place of shift(): the newest chunk first.
QueueHeadPop(q) == q[Len(q)]
\* bufferQueue[0] in place of shift(): the head is read and never removed.
QueueRestKeep(q) == q

\* The head of the queue that sourceBufferOnUpdateEnd hands on, and what is left.
QueueHead(q) == Head(q)
QueueRest(q) == Tail(q)

\* Whether sourceBufferOnUpdateEnd starts playback: not playing, and the
\* duration of the current MediaSource is at least 0.5 s.
autoPlay(S) ==
  /\ ~playing
  /\ DurationGE(S[ttsMediaSource].duration, MinPlayDuration)

\* What sourceBufferOnUpdateEnd leaves in lastDuration.
lastDurationAfter(S) ==
  IF S[ttsMediaSource].duration = InfDuration THEN 0 ELSE lastDuration

\* The SourceBuffer of unit u finishes the append pending on it (or aborts it,
\* when the buffer was removed meanwhile) and fires 'updateend', which runs
\* sourceBufferOnUpdateEnd, registered once by append.
UpdateEnd(u) ==
  /\ mediaSources[u].updating
  /\ \E reject \in BOOLEAN :
       LET M  == mediaSources[u]
           S1 == IF M.sb = "attached"
                 THEN [mediaSources EXCEPT
                         ![u].updating = FALSE, ![u].pending = 0,
                         ![u].listener = FALSE,
                         ![u].buffered = M.buffered + ChunkDur,
                         ![u].duration =
                            IF M.duration \in {NaNDuration, InfDuration}
                            THEN InfDuration
                            ELSE IF M.buffered + ChunkDur > M.duration
                                 THEN M.buffered + ChunkDur ELSE M.duration]
                 ELSE [mediaSources EXCEPT ![u] = DeadUnit]
           ld    == lastDurationAfter(S1)
           start == autoPlay(S1)
           a1    == IF start /\ ttsEnded /\ ld # 0
                    THEN [audio EXCEPT !.currentTime = ld] ELSE audio
           o1    == IF start
                    THEN [obs EXCEPT
                            !.resumed = TRUE,
                            !.resumePos = a1.currentTime,
                            !.resumeBuffered = S1[ttsMediaSource].buffered,
                            !.resumeEndPos = IF ttsEnded THEN obs.endPos ELSE 0,
                            !.endPos = 0]
                    ELSE obs
           r     == IF Len(bufferQueue) > 0
                    THEN append(S1, FALSE, FALSE, handed, o1,
                                QueueHead(bufferQueue), TRUE, reject)
                    ELSE [S |-> S1, bufferUpdating |-> FALSE, resolver |-> FALSE,
                          handed |-> handed, obs |-> o1]
       IN /\ lastDuration' = ld
          /\ audio' = IF start THEN Play(a1) ELSE audio
          /\ playing' = (playing \/ start)
          /\ bufferQueue' = IF Len(bufferQueue) > 0
                            THEN QueueRest(bufferQueue) ELSE bufferQueue
          /\ mediaSources' = r.S
          /\ bufferUpdating' = r.bufferUpdating
          /\ sourceBufferResolver' = r.resolver
          /\ handed' = r.handed
          /\ obs' = r.obs
  /\ UNCHANGED <<ttsMediaSource, ttsSourceBuffer, ttsEnded, nUnits, nSubmitted>>
  /\ UNCHANGED <<clientVars, vadVars, chatVars>>

\* init(), up to its await: the audio events are registered, a new MediaSource
\* is created and attached to the <audio> element, whose load algorithm pauses
\* it, rewinds it and drops its pending events.
init(S) ==
  /\ nUnits < MaxUnits
  /\ nUnits' = nUnits + 1
  /\ ttsMediaSource' = nUnits + 1
  /\ mediaSources' = [Detach(S, ttsMediaSource) EXCEPT
                        ![nUnits + 1] = [NoUnit EXCEPT !.readyState = "closed",
                                                       !.bornMark = nSubmitted]]
  /\ audio' = [paused |-> TRUE, currentTime |-> 0, listening |-> TRUE,
               events |-> <<>>]

\* init() called by the owner of the player (StreamPlayer.init), once, on the
\* player it has constructed; later units are created by reset().
MSInit ==
  /\ ttsMediaSource = 0
  /\ init(mediaSources)
  /\ UNCHANGED obs
  /\ UNCHANGED <<playing, ttsSourceBuffer, sourceBufferResolver, bufferUpdating,
                 bufferQueue, lastDuration, ttsEnded, nSubmitted, handed>>
  /\ UNCHANGED <<clientVars, vadVars, chatVars>>

\* 'sourceopen' of the attached MediaSource resumes init(): the SourceBuffer
\* of the current MediaSource is created.
SourceOpen ==
  /\ ttsMediaSource # 0
  /\ mediaSources[ttsMediaSource].readyState = "closed"
  /\ mediaSources' = [mediaSources EXCEPT
                        ![ttsMediaSource].readyState = "open",
                        ![ttsMediaSource].sb = "attached"]
  /\ ttsSourceBuffer' = ttsMediaSource
  /\ UNCHANGED <<playing, ttsMediaSource, sourceBufferResolver, bufferUpdating,
                 bufferQueue, lastDuration, ttsEnded, nUnits, audio,
                 nSubmitted, handed, obs>>
  /\ UNCHANGED <<clientVars, vadVars, chatVars>>

\* reset(): remove the SourceBuffer when the three conditions hold, then init().
reset ==
  /\ IF ttsMediaSource = 0 \/ ttsSourceBuffer = 0
     THEN UNCHANGED <<ttsMediaSource, mediaSources, nUnits, audio, obs>>
     ELSE LET b == ttsSourceBuffer
              remove ==
                /\ DurationGT(mediaSources[ttsMediaSource].duration, 0)
                /\ b = ttsMediaSource /\ IsActive(mediaSources, b)
                /\ ~mediaSources[b].updating
          IN /\ init(IF remove THEN [mediaSources EXCEPT ![b].sb = "removed"]
                     ELSE mediaSources)
             /\ obs' = [obs EXCEPT !.disrupted = TRUE]
  /\ UNCHANGED <<playing, ttsSourceBuffer, sourceBufferResolver, bufferUpdating,
                 bufferQueue, lastDuration, ttsEnded, nSubmitted, handed>>

\* reset() called on the player (StreamPlayer.reset).
MSReset ==
  /\ reset
  /\ UNCHANGED <<clientVars, vadVars, chatVars>>

\* pause() that also drops the chunks waiting in the queue.
pauseFlushing ==
  /\ audio' = IF audio.paused THEN audio
              ELSE [audio EXCEPT !.paused = TRUE, !.events = Append(@, "pause")]
  /\ playing' = FALSE
  /\ bufferQueue' = <<>>
  /\ UNCHANGED <<ttsMediaSource, ttsSourceBuffer, sourceBufferResolver,
                 bufferUpdating, lastDuration, ttsEnded,
                 mediaSources, nUnits, nSubmitted, handed, obs>>

\* pause()
msPause ==
  /\ audio' = IF audio.paused THEN audio
              ELSE [audio EXCEPT !.paused = TRUE, !.events = Append(@, "pause")]
  /\ playing' = FALSE
  /\ UNCHANGED <<ttsMediaSource, ttsSourceBuffer, sourceBufferResolver,
                 bufferUpdating, bufferQueue, lastDuration, ttsEnded,
                 mediaSources, nUnits, nSubmitted, handed, obs>>

\* pause() called on the player (StreamPlayer.pause).
MSPause ==
  /\ msPause
  /\ UNCHANGED <<clientVars, vadVars, chatVars>>

\* endOfStream(): seals the current MediaSource when it is open; the platform
\* throws (and nothing changes) while its SourceBuffer is updating.
MSEndOfStream ==
  /\ ttsMediaSource # 0
  /\ mediaSources[ttsMediaSource].readyState = "open"
  /\ mediaSources' =
       IF mediaSources[ttsMediaSource].updating THEN mediaSources
       ELSE [mediaSources EXCEPT
               ![ttsMediaSource].readyState = "ended",
               ![ttsMediaSource].duration = mediaSources[ttsMediaSource].buffered,
               ![ttsMediaSource].sealMark = nSubmitted]
  /\ UNCHANGED <<playing, ttsMediaSource, ttsSourceBuffer, sourceBufferResolver,
                 bufferUpdating, bufferQueue, lastDuration, ttsEnded, nUnits,
                 audio, nSubmitted, handed, obs>>
  /\ UNCHANGED <<clientVars, vadVars, chatVars>>

\* The <audio> element delivers its next queued event to the handler that
\* initAudioEvent registered: onPlayTTS, onPauseTTS or onCloseTTS.
AudioEvent ==
  /\ audio.events # <<>>
  /\ audio' = [audio EXCEPT !.events = Tail(@)]
  /\ LET e == Head(audio.events)
     IN /\ playing' = IF audio.listening THEN (e = "play") ELSE playing
        /\ ttsEnded' = IF ~audio.listening \/ e = "pause" THEN ttsEnded
                       ELSE (e = "ended")
        /\ gain' = IF audio.listening /\ interruptLouder
                   THEN (IF e = "play" THEN LouderGain ELSE UnityGain)
                   ELSE gain
  /\ UNCHANGED <<ttsMediaSource, ttsSourceBuffer, sourceBufferResolver,
                 bufferUpdating, bufferQueue, lastDuration, mediaSources,
                 nUnits, nSubmitted, handed, obs>>
  /\ UNCHANGED <<format, ttsChunks, pcmPlayer, playBufferedTTS, userInterrupt,
                 interruptLouder, chatLog>>
  /\ UNCHANGED <<clientVars, vadVars>>

\* Playback reaches the end of a sealed MediaSource: the element pauses itself
\* at the duration and queues 'pause' and 'ended'.
PlaybackEnds ==
  /\ ~audio.paused
  /\ ttsMediaSource # 0
  /\ mediaSources[ttsMediaSource].readyState = "ended"
  /\ audio' = [audio EXCEPT
                 !.paused = TRUE,
                 !.currentTime = mediaSources[ttsMediaSource].duration,
                 !.events = @ \o <<"pause", "ended">>]
  /\ obs' = [obs EXCEPT !.endPos = mediaSources[ttsMediaSource].duration]
  /\ UNCHANGED <<playing, ttsMediaSource, ttsSourceBuffer, sourceBufferResolver,
                 bufferUpdating, bufferQueue, lastDuration, ttsEnded,
                 mediaSources, nUnits, nSubmitted, handed>>
  /\ UNCHANGED <<clientVars, vadVars, chatVars>>

PlayerNext ==
  \/ AdaptBuffer
  \/ \E u \in Units : UpdateEnd(u)
  \/ MSInit
  \/ SourceOpen
  \/ MSReset
  \/ MSPause
  \/ MSEndOfStream
  \/ AudioEvent
  \/ PlaybackEnds

\* ------------------------------------------------------------ realtimeClient

\* A goroutine that is not inside a call of the client. Inside Wait: the
\* WaitGroup waited for; inside Send: the event (its number and the
\* ClientTimestamp the caller gave it) and whether another write overlapped.
IdleCaller == [pc |-> "idle", wref |-> 0, ev |-> 0, given |-> 0, raced |-> FALSE]

\* The goroutines inside r.conn.WriteMessage.
Writing == {p \in Callers : callers[p].pc = "writing"}

\* event.ClientTimestamp as callers pass it (0: not set), and the clock.
Timestamps == {-1, 0, 5}
UnixMilliNow == 9

\* event.ClientTimestamp as Send transmits it.
ClientTimestampStamped(given) == UnixMilliNow
ClientTimestamp(given) == IF given <= 0 THEN UnixMilliNow ELSE given

\* The state after NewRealtimeClient(url, apiKey, onReceived), with a callback.
ClientInit ==
  /\ isConnected = FALSE
  /\ conn = 0
  /\ wg = 0
  /\ lock = [writer |-> "none", readers |-> {}]
  /\ conns = [c \in Conns |-> [state |-> "none", rx |-> 0]]
  /\ wgCount = [c \in Conns |-> 0]
  /\ nConns = 0
  /\ loops = [l \in Conns |->
               [pc |-> "none", c |-> 0, f |-> 0, kind |-> "none", wgref |-> 0,
                disc |-> FALSE]]
  /\ callers = [p \in Callers |-> IdleCaller]
  /\ delivered = <<>>
  /\ panicked = "none"
  /\ wire = <<>>
  /\ nSent = 0
  /\ outcome = "none"

\* sync.RWMutex: Lock() needs no holder at all, RLock() no writer.
CanLock == lock.writer = "none" /\ lock.readers = {}
CanRLock == lock.writer = "none"

\* A panic ends the process; until then every goroutine may take its step.
Alive == panicked = "none"

\* The body of Disconnect(), under the lock: the connection is closed when
\* the client was connected (and isConnected becomes false).
ConnsAfterDisconnect ==
  IF isConnected THEN [conns EXCEPT ![conn].state = "closed"] ELSE conns

\* Connect(): if r.isConnected { return nil }
ConnectReturnsEarlyNever == FALSE
ConnectReturnsEarly == isConnected

\* Connect(): takes the lock; returns at once when connected, else dials.
ConnectCall(p) ==
  /\ Alive
  /\ callers[p].pc = "idle"
  /\ CanLock
  /\ IF ConnectReturnsEarly
     THEN outcome' = "ConnectNoop" /\ UNCHANGED <<lock, callers>>
     ELSE /\ nConns < MaxConns
          /\ lock' = [lock EXCEPT !.writer = p]
          /\ callers' = [callers EXCEPT ![p].pc = "dialing"]
          /\ UNCHANGED outcome
  /\ UNCHANGED <<isConnected, conn, wg, conns, wgCount, nConns, loops,
                 delivered, panicked, wire, nSent>>
  /\ UNCHANGED <<playerVars, vadVars, chatVars>>

\* Connect(), after Dial: on success the connection, the flag and a new
\* WaitGroup are stored, the receive loop is started, the lock is released.
ConnectDial(p) ==
  /\ Alive
  /\ callers[p].pc = "dialing"
  /\ lock' = [lock EXCEPT !.writer = "none"]
  /\ callers' = [callers EXCEPT ![p].pc = "idle"]
  /\ \E ok \in BOOLEAN :
       IF ok
       THEN LET id == nConns + 1
            IN /\ nConns' = id
               /\ conn' = id
               /\ isConnected' = TRUE
               /\ wg' = id
               /\ wgCount' = [wgCount EXCEPT ![id] = 1]
               /\ conns' = [conns EXCEPT ![id].state = "open"]
               /\ loops' = [loops EXCEPT ![id].pc = "start"]
       ELSE UNCHANGED <<isConnected, conn, wg, conns, wgCount, nConns, loops>>
  /\ UNCHANGED <<delivered, panicked>>
  /\ UNCHANGED sendVars
  /\ UNCHANGED <<playerVars, vadVars, chatVars>>

\* Disconnect() by a caller.
DisconnectCall(p) ==
  /\ Alive
  /\ callers[p].pc = "idle"
  /\ CanLock
  /\ isConnected' = FALSE
  /\ conns' = ConnsAfterDisconnect
  /\ UNCHANGED <<conn, wg, lock, wgCount, nConns, loops, callers, delivered,
                 panicked>>
  /\ UNCHANGED sendVars
  /\ UNCHANGED <<playerVars, vadVars, chatVars>>

\* The lock Send() takes for the duration of the write.
SendLockFree == CanRLock
\* A Send() that writes without holding the lock.
SendUnlocked(p) == lock
SendLocked(p) == [lock EXCEPT !.readers = @ \cup {p}]

\* Send(): if !r.isConnected { return fmt.Errorf("not connected") }
SendNotConnectedNever == FALSE
SendNotConnected == ~isConnected

\* Send(): takes the lock; fails when not connected, else stamps the event and
\* starts the write.
SendCall(p) ==
  /\ Alive
  /\ callers[p].pc = "idle"
  /\ SendLockFree
  /\ IF SendNotConnected
     THEN outcome' = "SendNotConnected" /\ UNCHANGED <<lock, callers, nSent>>
     ELSE /\ nSent < MaxSends
          /\ nSent' = nSent + 1
          /\ lock' = SendLocked(p)
          /\ \E ts \in Timestamps :
               callers' = [q \in Callers |->
                 IF q = p
                 THEN [callers[p] EXCEPT !.pc = "writing", !.ev = nSent + 1,
                                         !.given = ts, !.raced = Writing # {}]
                 ELSE IF q \in Writing
                      THEN [callers[q] EXCEPT !.raced = TRUE]
                      ELSE callers[q]]
          /\ UNCHANGED outcome
  /\ UNCHANGED <<isConnected, conn, wg, conns, wgCount, nConns, loops,
                 delivered, panicked, wire>>
  /\ UNCHANGED <<playerVars, vadVars, chatVars>>

\* The frame of the event a goroutine is writing.
Frame(p, intact) ==
  [p |-> p, ev |-> callers[p].ev, given |-> callers[p].given,
   ts |-> ClientTimestamp(callers[p].given), intact |-> intact]

\* Send(), after WriteMessage: the error, if any, is logged and returned. The
\* write fails when the transport has failed. A *websocket.Conn supports one
\* concurrent writer: of a write that overlapped another one the frame
\* arrives intact or garbled, or the library panics.
SendReturn(p) ==
  /\ Alive
  /\ callers[p].pc = "writing"
  /\ lock' = [lock EXCEPT !.readers = @ \ {p},
                          !.writer = IF @ = p THEN "none" ELSE @]
  /\ callers' = [callers EXCEPT ![p] = IdleCaller]
  /\ IF conns[conn].state # "open"
     THEN outcome' = "SendFailed" /\ UNCHANGED <<wire, panicked>>
     ELSE IF callers[p].raced
     THEN \/ \E intact \in BOOLEAN :
               /\ wire' = Append(wire, Frame(p, intact))
               /\ UNCHANGED <<outcome, panicked>>
          \/ /\ panicked' = "concurrent write to websocket connection"
             /\ UNCHANGED <<wire, outcome>>
     ELSE /\ wire' = Append(wire, Frame(p, TRUE))
          /\ UNCHANGED <<outcome, panicked>>
  /\ UNCHANGED <<isConnected, conn, wg, conns, wgCount, nConns, loops,
                 delivered, nSent>>
  /\ UNCHANGED <<playerVars, vadVars, chatVars>>

\* Wait(): r.wg.Wait(), a nil dereference when no Connect has succeeded.
WaitCall(p) ==
  /\ Alive
  /\ callers[p].pc = "idle"
  /\ IF wg = 0
     THEN panicked' = "nil WaitGroup" /\ UNCHANGED callers
     ELSE /\ callers' = [callers EXCEPT ![p].pc = "waiting", ![p].wref = wg]
          /\ UNCHANGED panicked
  /\ UNCHANGED <<isConnected, conn, wg, lock, conns, wgCount, nConns, loops,
                 delivered>>
  /\ UNCHANGED sendVars
  /\ UNCHANGED <<playerVars, vadVars, chatVars>>

\* Wait() returns when the counter of its WaitGroup is zero.
WaitReturn(p) ==
  /\ Alive
  /\ callers[p].pc = "waiting"
  /\ wgCount[callers[p].wref] = 0
  /\ callers' = [callers EXCEPT ![p] = IdleCaller]
  /\ UNCHANGED <<isConnected, conn, wg, lock, conns, wgCount, nConns, loops,
                 delivered, panicked>>
  /\ UNCHANGED sendVars
  /\ UNCHANGED <<playerVars, vadVars, chatVars>>

\* readWsMsg returns: the deferred wg.Done() runs. Observed: whether it
\* returned after a failed Unmarshal or callback ("faulted").
LoopExit(l) ==
  /\ loops' = [loops EXCEPT
                 ![l].pc = IF loops[l].pc = "fault" THEN "faulted" ELSE "exited"]
  /\ wgCount' = [wgCount EXCEPT ![loops[l].wgref] = @ - 1]
  /\ panicked' = IF wgCount[loops[l].wgref] = 0
                 THEN "negative WaitGroup counter" ELSE panicked

\* readWsMsg starts: `defer r.wg.Done()` binds the WaitGroup of the moment.
LoopStart(l) ==
  /\ Alive
  /\ loops[l].pc = "start"
  /\ loops' = [loops EXCEPT ![l].pc = "check", ![l].wgref = wg]
  /\ UNCHANGED <<isConnected, conn, wg, lock, conns, wgCount, nConns, callers,
                 delivered, panicked>>
  /\ UNCHANGED sendVars
  /\ UNCHANGED <<playerVars, vadVars, chatVars>>

\* for r.IsConnected() { ... }
LoopCheck(l) ==
  /\ Alive
  /\ loops[l].pc = "check"
  /\ CanRLock
  /\ IF isConnected
     THEN /\ loops' = [loops EXCEPT ![l].pc = "read"]
          /\ UNCHANGED <<wgCount, panicked>>
     ELSE LoopExit(l)
  /\ UNCHANGED <<isConnected, conn, wg, lock, conns, nConns, callers, delivered>>
  /\ UNCHANGED sendVars
  /\ UNCHANGED <<playerVars, vadVars, chatVars>>

\* The connection readWsMsg reads from: r.conn, read without the lock.
LoopConn == conn

\* r.conn.ReadMessage() is called.
LoopReadCall(l) ==
  /\ Alive
  /\ loops[l].pc = "read"
  /\ loops' = [loops EXCEPT ![l].pc = "reading", ![l].c = LoopConn]
  /\ UNCHANGED <<isConnected, conn, wg, lock, conns, wgCount, nConns, callers,
                 delivered, panicked>>
  /\ UNCHANGED sendVars
  /\ UNCHANGED <<playerVars, vadVars, chatVars>>

\* ReadMessage returns the next frame of the connection, well-formed or not,
\* or an error once the connection is closed or has failed (the loop returns).
LoopReadReturn(l) ==
  /\ Alive
  /\ loops[l].pc = "reading"
  /\ LET c == loops[l].c
     IN IF conns[c].state = "open"
        THEN /\ conns[c].rx < MaxFrames
             /\ conns' = [conns EXCEPT ![c].rx = @ + 1]
             /\ \E k \in {"good", "bad"} :
                  loops' = [loops EXCEPT ![l].pc = "got", ![l].kind = k,
                                         ![l].f = conns[c].rx + 1]
             /\ UNCHANGED <<wgCount, panicked>>
        ELSE LoopExit(l) /\ UNCHANGED conns
  /\ UNCHANGED <<isConnected, conn, wg, lock, nConns, callers, delivered>>
  /\ UNCHANGED sendVars
  /\ UNCHANGED <<playerVars, vadVars, chatVars>>

\* json.Unmarshal, then r.onReceived(event) is entered (or the frame is bad).
LoopDispatch(l) ==
  /\ Alive
  /\ loops[l].pc = "got"
  /\ IF loops[l].kind = "bad"
     THEN /\ loops' = [loops EXCEPT ![l].pc = "fault"]
          /\ UNCHANGED delivered
     ELSE /\ loops' = [loops EXCEPT ![l].pc = "callback", ![l].disc = FALSE]
          /\ delivered' = Append(delivered, [c |-> loops[l].c, f |-> loops[l].f])
  /\ UNCHANGED <<isConnected, conn, wg, lock, conns, wgCount, nConns, callers,
                 panicked>>
  /\ UNCHANGED sendVars
  /\ UNCHANGED <<playerVars, vadVars, chatVars>>

\* The callback calls Disconnect() (as the sample's onReceived does on
\* response.done and on error).
CallbackDisconnect(l) ==
  /\ Alive
  /\ loops[l].pc = "callback"
  /\ ~loops[l].disc
  /\ CanLock
  /\ isConnected' = FALSE
  /\ conns' = ConnsAfterDisconnect
  /\ loops' = [loops EXCEPT ![l].disc = TRUE]
  /\ UNCHANGED <<conn, wg, lock, wgCount, nConns, callers, delivered, panicked>>
  /\ UNCHANGED sendVars
  /\ UNCHANGED <<playerVars, vadVars, chatVars>>

\* The callback returns nil (the loop goes on) or an error.
CallbackReturn(l) ==
  /\ Alive
  /\ loops[l].pc = "callback"
  /\ \E err \in BOOLEAN :
       loops' = [loops EXCEPT ![l].pc = IF err THEN "fault" ELSE "check"]
  /\ UNCHANGED <<isConnected, conn, wg, lock, conns, wgCount, nConns, callers,
                 delivered, panicked>>
  /\ UNCHANGED sendVars
  /\ UNCHANGED <<playerVars, vadVars, chatVars>>

\* After a failed Unmarshal or a failed callback: _ = r.Disconnect(); return.
LoopFault(l) ==
  /\ Alive
  /\ loops[l].pc = "fault"
  /\ CanLock
  /\ isConnected' = FALSE
  /\ conns' = ConnsAfterDisconnect
  /\ LoopExit(l)
  /\ UNCHANGED <<conn, wg, lock, nConns, callers, delivered>>
  /\ UNCHANGED sendVars
  /\ UNCHANGED <<playerVars, vadVars, chatVars>>

\* The transport of an open connection fails (network error, server close).
TransportFails(c) ==
  /\ Alive
  /\ conns[c].state = "open"
  /\ conns' = [conns EXCEPT ![c].state = "failed"]
  /\ UNCHANGED <<isConnected, conn, wg, lock, wgCount, nConns, loops, callers,
                 delivered, panicked>>
  /\ UNCHANGED sendVars
  /\ UNCHANGED <<playerVars, vadVars, chatVars>>

\* The calls that open and close the connection, and the transport failing.
ConnectionNext ==
  \/ \E p \in Callers : ConnectCall(p)
  \/ \E p \in Callers : ConnectDial(p)
  \/ \E p \in Callers : DisconnectCall(p)
  \/ \E c \in Conns : TransportFails(c)

\* The sending side: the goroutines that call Send.
SendNext ==
  \/ ConnectionNext
  \/ \E p \in Callers : SendCall(p)
  \/ \E p \in Callers : SendReturn(p)

\* The receiving side: the receive loops and the goroutines that call Wait.
ReceiveNext ==
  \/ ConnectionNext
  \/ \E p \in Callers : WaitCall(p)
  \/ \E p \in Callers : WaitReturn(p)
  \/ \E l \in Conns : LoopStart(l)
  \/ \E l \in Conns : LoopCheck(l)
  \/ \E l \in Conns : LoopReadCall(l)
  \/ \E l \in Conns : LoopReadReturn(l)
  \/ \E l \in Conns : LoopDispatch(l)
  \/ \E l \in Conns : CallbackDisconnect(l)
  \/ \E l \in Conns : CallbackReturn(l)
  \/ \E l \in Conns : LoopFault(l)

\* The connection being opened and closed while the server sends nothing:
\* the receive loops start, test IsConnected and wait in ReadMessage.
ConnectNext ==
  \/ ConnectionNext
  \/ \E l \in Conns : LoopStart(l)
  \/ \E l \in Conns : LoopCheck(l)
  \/ \E l \in Conns : LoopReadCall(l)

ClientNext == SendNext \/ ReceiveNext

\* ------------------------------------------------------------------ ChatVAD

\* new FixedQueue<Float32Array>(4)
PreRollDepth == 4

\* FixedQueue.append: the oldest element leaves a full queue.
QueueAppend(q, x) ==
  IF Len(q) >= PreRollDepth THEN Append(Tail(q), x) ELSE Append(q, x)

\* The state after new ChatVAD(chatBase, options). Observed: the frame at
\* which the open utterance started (startFrame) and the first frame after
\* the utterance before it (idleFrom), the data passed to onFrameProcess for
\* the utterance (forwarded), how often onSpeechStart and onSpeechEnd ran,
\* whether handleSpeechEnd ever ran outside an utterance (stray) and whether
\* a veto hook ever cancelled a transition (vetoed); what the last call of
\* handleSpeechStart or handleSpeechEnd did (last); the segment as the last
\* utterance ended with it (sealed) and the first frame after the utterance
\* before that one (sealedFrom).
VadInitial ==
  /\ vadInstance = "none"
  /\ speeching = FALSE
  /\ speechStart = FALSE
  /\ aheadChunks = <<>>
  /\ recordPCMPart = <<>>
  /\ micSpeaking = FALSE
  /\ nFrames = 0
  /\ micSignal = "none"
  /\ vadLog = [startFrame |-> 0, idleFrom |-> 1, forwarded |-> <<>>,
               starts |-> 0, ends |-> 0, stray |-> FALSE, vetoed |-> FALSE,
               last |-> "none", sealed |-> <<>>, sealedFrom |-> 1]

\* The fields the callbacks of the detector work on, as one value.
VadFields ==
  [speeching |-> speeching, speechStart |-> speechStart,
   aheadChunks |-> aheadChunks, recordPCMPart |-> recordPCMPart,
   log |-> vadLog]

\* The data a frame contributes to the utterance: with the pre-roll in front
\* of it on the first frame after a speech start.
InputBuffer(v, f) ==
  IF v.speechStart /\ Len(v.aheadChunks) > 0
  THEN v.aheadChunks \o <<f>>
  ELSE <<f>>

\* onFrameProcessed: (_, frame) => { ... }
onFrameProcessed(v, f) ==
  IF ~v.speeching
  THEN [v EXCEPT !.aheadChunks = QueueAppend(@, f)]
  ELSE [v EXCEPT
          !.recordPCMPart =
             (IF v.speechStart THEN <<>> ELSE @) \o InputBuffer(v, f),
          !.speechStart = FALSE,
          !.aheadChunks = IF v.speechStart THEN <<>> ELSE @,
          !.log.forwarded = @ \o InputBuffer(v, f)]

\* handleSpeechStart() without the veto: the transition is made whatever the
\* hook returns.
handleSpeechStartUnvetoed(v, veto, f) ==
  [v EXCEPT !.speechStart = TRUE,
            !.speeching = TRUE,
            !.log.starts = @ + 1,
            !.log.startFrame = f,
            !.log.forwarded = <<>>,
            !.log.last = IF veto THEN "startVetoed" ELSE "started"]

\* handleSpeechStart, for the signal that came with frame f; veto is what
\* options.revokeSpeechStart returns.
handleSpeechStart(v, veto, f) ==
  IF veto
  THEN [v EXCEPT !.log.vetoed = TRUE, !.log.last = "startVetoed"]
  ELSE [v EXCEPT !.speechStart = TRUE,
                 !.speeching = TRUE,
                 !.log.starts = @ + 1,
                 !.log.startFrame = f,
                 !.log.forwarded = <<>>,
                 !.log.last = "started"]

\* handleSpeechEnd without the veto: the utterance is ended whatever the hook
\* returns.
handleSpeechEndUnvetoed(v, veto, f) ==
  [v EXCEPT !.speeching = FALSE,
            !.aheadChunks = <<>>,
            !.log.ends = @ + 1,
            !.log.idleFrom = IF v.speeching THEN f + 1 ELSE @,
            !.log.stray = @ \/ ~v.speeching,
            !.log.sealed = IF v.speeching THEN v.recordPCMPart ELSE @,
            !.log.sealedFrom = IF v.speeching THEN v.log.idleFrom ELSE @,
            !.log.last = IF veto THEN "endVetoed" ELSE "ended"]

\* handleSpeechEnd after frame f (the next frame is f + 1); veto is what
\* options.revokeSpeechEnd returns.
handleSpeechEnd(v, veto, f) ==
  IF veto
  THEN [v EXCEPT !.log.vetoed = TRUE, !.log.last = "endVetoed"]
  ELSE [v EXCEPT !.speeching = FALSE,
                 !.aheadChunks = <<>>,
                 !.log.ends = @ + 1,
                 !.log.idleFrom = IF v.speeching THEN f + 1 ELSE @,
                 !.log.stray = @ \/ ~v.speeching,
                 !.log.sealed = IF v.speeching THEN v.recordPCMPart ELSE @,
                 !.log.sealedFrom = IF v.speeching THEN v.log.idleFrom ELSE @,
                 !.log.last = "ended"]

\* The fields as a callback leaves them.
VadAssign(v) ==
  /\ speeching' = v.speeching
  /\ speechStart' = v.speechStart
  /\ aheadChunks' = v.aheadChunks
  /\ recordPCMPart' = v.recordPCMPart
  /\ vadLog' = v.log

\* ChatVAD.init: MicVAD.new(...), which starts listening at once or waits
\* for start(), as its startOnLoad option (left to the library) says.
VadInit ==
  /\ vadInstance = "none"
  /\ micSignal = "none"
  /\ \E on \in BOOLEAN :
       vadInstance' = IF on THEN "running" ELSE "paused"
  /\ micSpeaking' = FALSE
  /\ UNCHANGED <<speeching, speechStart, aheadChunks, recordPCMPart, nFrames,
                 micSignal, vadLog>>
  /\ UNCHANGED <<playerVars, clientVars, chatVars>>

\* ChatVAD.start
VadStart ==
  /\ micSignal = "none"
  /\ vadInstance' = IF vadInstance = "none" THEN "none" ELSE "running"
  /\ UNCHANGED <<speeching, speechStart, aheadChunks, recordPCMPart,
                 micSpeaking, nFrames, micSignal, vadLog>>
  /\ UNCHANGED <<playerVars, clientVars, chatVars>>

\* ChatVAD.pause, on an instance: the detector stops and forgets its state;
\* an utterance that is open is ended.
pause(veto) ==
  /\ micSpeaking' = FALSE
  /\ IF speeching
     THEN VadAssign(handleSpeechEnd(VadFields, veto, nFrames))
     ELSE UNCHANGED <<speeching, speechStart, aheadChunks, recordPCMPart,
                      vadLog>>

VadPause ==
  /\ vadInstance # "none"
  /\ micSignal = "none"
  /\ vadInstance' = "paused"
  /\ \E veto \in BOOLEAN : pause(veto)
  /\ UNCHANGED <<nFrames, micSignal>>
  /\ UNCHANGED <<playerVars, clientVars, chatVars>>

\* ChatVAD.destroy
VadDestroy ==
  /\ vadInstance # "none"
  /\ micSignal = "none"
  /\ vadInstance' = "none"
  /\ \E veto \in BOOLEAN : pause(veto)
  /\ UNCHANGED <<nFrames, micSignal>>
  /\ UNCHANGED <<playerVars, clientVars, chatVars>>

\* The signals the detector can give with a frame: onSpeechStart, or
\* onSpeechEnd or onVADMisfire (both of which are handleSpeechEnd).
MicSignals == IF micSpeaking THEN {"none", "end", "misfire"} ELSE {"none", "start"}

\* The detector processes one frame of the microphone: it hands the frame to
\* onFrameProcessed; if the frame changed its mind about the user speaking,
\* its signal follows before anything else runs.
ProcessFrame ==
  /\ vadInstance = "running"
  /\ micSignal = "none"
  /\ nFrames < MaxVadFrames
  /\ nFrames' = nFrames + 1
  /\ VadAssign(onFrameProcessed(VadFields, nFrames + 1))
  /\ \E sig \in MicSignals :
       /\ micSignal' = sig
       /\ micSpeaking' = (IF sig = "none" THEN micSpeaking ELSE sig = "start")
  /\ UNCHANGED vadInstance
  /\ UNCHANGED <<playerVars, clientVars, chatVars>>

\* The detector gives its signal for the frame: handleSpeechStart or
\* handleSpeechEnd runs, with what the veto hook returns.
SignalSpeech ==
  /\ micSignal # "none"
  /\ micSignal' = "none"
  /\ \E veto \in BOOLEAN :
       VadAssign(IF micSignal = "start"
                 THEN handleSpeechStart(VadFields, veto, nFrames)
                 ELSE handleSpeechEnd(VadFields, veto, nFrames))
  /\ UNCHANGED <<vadInstance, micSpeaking, nFrames>>
  /\ UNCHANGED <<playerVars, clientVars, chatVars>>

VadNext ==
  \/ VadInit
  \/ VadStart
  \/ VadPause
  \/ VadDestroy
  \/ ProcessFrame
  \/ SignalSpeech

\* ------------------------------------------------- StreamPlayer, ChatBase

Formats == {"mp3", "pcm"}

\* The state after the constructor of a session with ttsFormat 'mp3', whose
\* StreamPlayer holds the MediaSourcePlayer of Part I.
ChatInitial ==
  /\ format = "mp3"
  /\ ttsChunks = <<>>
  /\ pcmPlayer = [unit |-> "none", fed |-> <<>>]
  /\ playBufferedTTS = TRUE
  /\ userInterrupt = TRUE
  /\ interruptLouder = FALSE
  /\ gain = UnityGain
  /\ chatLog = [speech |-> 0, resets |-> 0, cancels |-> 0, switches |-> 0,
                switchMark |-> 0]

\* PCMPlayerManager.init(): a new pcm-player, running, with nothing fed.
PcmInit == [unit |-> "running", fed |-> <<>>]

\* ChatBase.ttsPlaying, which is StreamPlayer.playing: the playing field of
\* the player held. PCMPlayerManager never assigns its own.
ttsPlaying == IF format = "mp3" THEN playing ELSE FALSE

\* StreamPlayer.append(audioParts): the chunk goes to the player held, then
\* into ttsChunks. When appendBuffer throws (the chunk was to be handed to a
\* SourceBuffer at once and was not), the exception leaves append before
\* ttsChunks.push.
StreamAppend ==
  /\ IF format = "mp3"
     THEN adaptBuffer /\ UNCHANGED pcmPlayer
     ELSE /\ nSubmitted < MaxChunks
          /\ nSubmitted' = nSubmitted + 1
          /\ pcmPlayer' = IF pcmPlayer.unit = "none" THEN pcmPlayer
                          ELSE [pcmPlayer EXCEPT !.fed = Append(@, nSubmitted + 1)]
          /\ UNCHANGED <<playing, ttsMediaSource, ttsSourceBuffer,
                         sourceBufferResolver, bufferUpdating, bufferQueue,
                         lastDuration, ttsEnded, mediaSources, nUnits, audio,
                         handed, obs>>
  /\ ttsChunks' = IF /\ format = "mp3"
                       /\ ~checkBufferUpdating
                       /\ ttsSourceBuffer # 0
                       /\ handed' = handed
                    THEN ttsChunks
                    ELSE Append(ttsChunks, nSubmitted + 1)
  /\ UNCHANGED <<format, playBufferedTTS, userInterrupt, interruptLouder, gain,
                 chatLog>>
  /\ UNCHANGED <<clientVars, vadVars>>

\* StreamPlayer.reset(): reset() of the player held.
streamReset ==
  IF format = "mp3"
  THEN reset /\ UNCHANGED pcmPlayer
  ELSE pcmPlayer' = PcmInit /\ UNCHANGED playerVars

StreamReset ==
  /\ streamReset
  /\ UNCHANGED <<clientVars, vadVars, chatVars>>

\* StreamPlayer.pause(): pause() of the player held; a pcm-player suspends
\* its audio context.
streamPause ==
  IF format = "mp3"
  THEN msPause /\ UNCHANGED pcmPlayer
  ELSE /\ pcmPlayer' = IF pcmPlayer.unit = "running"
                       THEN [pcmPlayer EXCEPT !.unit = "suspended"]
                       ELSE pcmPlayer
       /\ UNCHANGED playerVars

StreamPause ==
  /\ streamPause
  /\ UNCHANGED <<format, ttsChunks, playBufferedTTS, userInterrupt,
                 interruptLouder, gain, chatLog>>
  /\ UNCHANGED <<clientVars, vadVars>>

\* StreamPlayer.init() and StreamPlayer.endOfStream() on a MediaSourcePlayer.
StreamInit == format = "mp3" /\ MSInit
StreamEndOfStream == format = "mp3" /\ MSEndOfStream

\* The pcm-player has played what was fed to it.
PcmPlayed ==
  /\ pcmPlayer.unit = "running"
  /\ pcmPlayer.fed # <<>>
  /\ pcmPlayer' = [pcmPlayer EXCEPT !.fed = <<>>]
  /\ UNCHANGED <<format, ttsChunks, playBufferedTTS, userInterrupt,
                 interruptLouder, gain, chatLog>>
  /\ UNCHANGED <<playerVars, clientVars, vadVars>>

\* MediaSourcePlayer.destroy(): endOfStream(), which the platform refuses with
\* an exception while the SourceBuffer is updating; abort() of a SourceBuffer
\* that is updating, which the platform refuses when its MediaSource is not
\* open; removeAudioEvent(), which pauses the element and removes the
\* handlers. `threw` tells whether destroy() ended with an exception.
destroy ==
  LET m  == ttsMediaSource
      b  == ttsSourceBuffer
      isOpen == m # 0 /\ mediaSources[m].readyState = "open"
      S1 == IF isOpen
            THEN [mediaSources EXCEPT
                    ![m].readyState = "ended",
                    ![m].duration = mediaSources[m].buffered,
                    ![m].sealMark = nSubmitted]
            ELSE mediaSources
  IN IF isOpen /\ mediaSources[m].updating
     THEN [threw |-> TRUE, S |-> mediaSources, audio |-> audio]
     ELSE IF b # 0 /\ S1[b].sb = "attached" /\ S1[b].updating
               /\ S1[b].readyState # "open"
          THEN [threw |-> TRUE, S |-> S1, audio |-> audio]
          ELSE [threw |-> FALSE, S |-> S1,
                audio |-> [audio EXCEPT
                             !.paused = TRUE,
                             !.listening = FALSE,
                             !.events = IF audio.paused THEN @
                                        ELSE Append(@, "pause")]]

\* setFormat(f): nothing when f is the current format; else destroy() of the
\* player held, ttsChunks emptied, and a new player of the other kind, with
\* its init(). An exception of destroy() ends setFormat where it occurs.
SetFormat ==
  \E f \in Formats :
    IF f = format
    THEN UNCHANGED vars
    ELSE /\ chatLog.switches < MaxSwitches
         /\ chatLog' = [chatLog EXCEPT !.switches = @ + 1,
                                       !.switchMark = nSubmitted]
         /\ IF format = "mp3"
            THEN /\ mediaSources' = destroy.S
                 /\ audio' = destroy.audio
                 /\ IF destroy.threw
                    THEN UNCHANGED <<format, ttsChunks, pcmPlayer>>
                    ELSE /\ format' = f
                         /\ ttsChunks' = <<>>
                         /\ pcmPlayer' = PcmInit
                 /\ UNCHANGED <<playing, ttsMediaSource, ttsSourceBuffer,
                                sourceBufferResolver, bufferUpdating,
                                bufferQueue, lastDuration, ttsEnded, nUnits,
                                nSubmitted, handed, obs>>
            ELSE /\ pcmPlayer' = [unit |-> "none", fed |-> <<>>]
                 /\ ttsChunks' = <<>>
                 /\ format' = f
                 /\ init(mediaSources)
                 /\ playing' = FALSE
                 /\ ttsSourceBuffer' = 0
                 /\ sourceBufferResolver' = FALSE
                 /\ bufferUpdating' = FALSE
                 /\ bufferQueue' = <<>>
                 /\ lastDuration' = 0
                 /\ ttsEnded' = FALSE
                 /\ UNCHANGED <<nSubmitted, handed, obs>>
         /\ UNCHANGED <<playBufferedTTS, userInterrupt, interruptLouder, gain>>
         /\ UNCHANGED <<clientVars, vadVars>>

\* The application sets chatBase.interruptLouder or chatBase.userInterrupt.
SetInterruptLouder ==
  /\ interruptLouder' = ~interruptLouder
  /\ UNCHANGED <<format, ttsChunks, pcmPlayer, playBufferedTTS, userInterrupt,
                 gain, chatLog>>
  /\ UNCHANGED <<playerVars, clientVars, vadVars>>

SetUserInterrupt ==
  /\ userInterrupt' = ~userInterrupt
  /\ UNCHANGED <<format, ttsChunks, pcmPlayer, playBufferedTTS, interruptLouder,
                 gain, chatLog>>
  /\ UNCHANGED <<playerVars, clientVars, vadVars>>

\* The user pauses the playback by hand: the player is paused and automatic
\* playback of buffered audio is switched off.
UserPause ==
  /\ playBufferedTTS
  /\ playBufferedTTS' = FALSE
  /\ streamPause
  /\ UNCHANGED <<format, ttsChunks, userInterrupt, interruptLouder, gain,
                 chatLog>>
  /\ UNCHANGED <<clientVars, vadVars>>

\* The user switches automatic playback on again.
UserResume ==
  /\ ~playBufferedTTS
  /\ playBufferedTTS' = TRUE
  /\ UNCHANGED <<format, ttsChunks, pcmPlayer, userInterrupt, interruptLouder,
                 gain, chatLog>>
  /\ UNCHANGED <<playerVars, clientVars, vadVars>>

\* The session is told that the user started speaking (onSpeechStart of the
\* segmenter): with interruption allowed and the player playing, it resets
\* the player and then sends response.cancel.
OnSpeechStart ==
  /\ chatLog.speech < MaxSpeech
  /\ IF userInterrupt /\ ttsPlaying
     THEN /\ streamReset
          /\ chatLog' = [chatLog EXCEPT !.speech = @ + 1,
                                        !.resets = @ + 1,
                                        !.cancels = @ + 1]
     ELSE /\ chatLog' = [chatLog EXCEPT !.speech = @ + 1]
          /\ UNCHANGED <<playerVars, pcmPlayer>>
  /\ UNCHANGED <<format, ttsChunks, playBufferedTTS, userInterrupt,
                 interruptLouder, gain>>
  /\ UNCHANGED <<clientVars, vadVars>>

\* The player of either format, as StreamPlayer drives it.
StreamNext ==
  \/ StreamInit
  \/ SourceOpen
  \/ StreamAppend
  \/ \E u \in Units : UpdateEnd(u)
  \/ StreamReset
  \/ StreamPause
  \/ StreamEndOfStream
  \/ AudioEvent
  \/ PlaybackEnds
  \/ PcmPlayed
  \/ SetFormat

GainNext == StreamNext \/ SetInterruptLouder

\* The player of either format while one turn is played: chunks arrive, are
\* acknowledged and played, the format is switched, the user pauses.
PauseNext ==
  \/ StreamInit
  \/ SourceOpen
  \/ StreamAppend
  \/ \E u \in Units : UpdateEnd(u)
  \/ StreamPause
  \/ AudioEvent
  \/ SetFormat
  \/ UserPause
  \/ UserResume

BargeInNext == StreamNext \/ SetUserInterrupt \/ OnSpeechStart

\* ---------------------------------------------------------- specifications

Init == PlayerInit /\ ClientInit /\ VadInitial /\ ChatInitial

\* The player, with the platform it drives.
Next == PlayerNext

Spec == Init /\ [][Next]_vars

\* The client on its receiving side. Send changes no field of the client and
\* holds the lock shared, which delays Connect and Disconnect and nothing
\* else, so the goroutines calling Send take no step here.
SpecClient == Init /\ [][ReceiveNext]_vars

\* The client on its sending side. A receive loop touches what Send reads
\* through Disconnect alone, as a caller of Disconnect does, so the receive
\* loops take no step here.
SpecSend == Init /\ [][SendNext]_vars

\* The client between the frames of the server.
SpecConnect == Init /\ [][ConnectNext]_vars

\* The segmenter, with the detector and the code that starts and stops it.
SpecVad == Init /\ [][VadNext]_vars

\* The player of either format, with the switches of the format.
SpecFormat == Init /\ [][StreamNext]_vars

\* The same, with the application switching the louder-interruption mode.
SpecGain == Init /\ [][GainNext]_vars

\* One turn of playback, with the user pausing it by hand.
SpecPause == Init /\ [][PauseNext]_vars

\* The same, with the session told that the user speaks.
SpecBargeIn == Init /\ [][BargeInNext]_vars

\* The platform completes every append it accepted: 'updateend' is eventually
\* fired on a SourceBuffer that is updating.
SpecAck == Spec /\ \A u \in Units : WF_vars(UpdateEnd(u))

\* ------------------------------------------------------------------ claims

InFlight == {u \in Units : mediaSources[u].updating}
Queued(c) == \E i \in 1..Len(bufferQueue) : bufferQueue[i] = c
Handed(c) == \E i \in 1..Len(handed) : handed[i].c = c

\* C1: at most one chunk is in flight at any time, and appendBuffer is never
\* invoked while a chunk handed earlier has not been acknowledged.
C1_SingleInFlight ==
  /\ Cardinality(InFlight) <= 1
  /\ ~obs.overlap
  /\ (InFlight # {} => bufferUpdating)

\* A chunk is in flight on the SourceBuffer of a MediaSource that reset() has
\* replaced, while later chunks wait in the queue.
C1_Witness ==
  /\ \E u \in InFlight : u # ttsMediaSource
  /\ Len(bufferQueue) >= 2

\* C2: the backend receives the chunks in the order of their submission, the
\* queue holds the later chunks in that order, and a chunk submitted while one
\* is in flight or queued goes to the tail of the queue.
C2_SubmissionOrder ==
  /\ \A i, j \in 1..Len(handed) : i < j => handed[i].c < handed[j].c
  /\ \A i, j \in 1..Len(bufferQueue) : i < j => bufferQueue[i] < bufferQueue[j]
  /\ \A i \in 1..Len(handed), j \in 1..Len(bufferQueue) :
        handed[i].c < bufferQueue[j]
  /\ \A c \in 1..nSubmitted :
        (\E u \in InFlight : mediaSources[u].pending < c) => ~Handed(c)

\* Three chunks have reached the backend, two of them through the queue.
C2_Witness ==
  /\ Len(handed) >= 3
  /\ handed[2].q /\ handed[3].q

\* C3 (as claimed): no chunk submitted before a reset() is accepted afterwards:
\* a unit accepts only chunks submitted after the reset() that created it.
C3_ResetDiscards ==
  \A i \in 1..Len(handed) :
    handed[i].c > mediaSources[handed[i].u].bornMark

\* An acknowledgment: the append pending on some SourceBuffer is over.
AckStep ==
  \E u \in Units :
    /\ mediaSources[u].pending # 0
    /\ mediaSources'[u].pending # mediaSources[u].pending

C5_NoWedge ==
  Len(bufferQueue) > 0 => InFlight # {}

\* C6 (as claimed): a unit sealed by endOfStream accepts no chunk submitted
\* after the seal.
C6_SealedAcceptsNothing ==
  \A i \in 1..Len(handed) :
    LET M == mediaSources[handed[i].u]
    IN M.sealMark >= 0 => handed[i].c <= M.sealMark

\* C7 (as claimed): when playback ended at p > 0 on a sealed unit and the
\* acknowledgment handler resumes playback on a new unit, it resumes at p.
C7_TurnContinuity ==
  (obs.resumed /\ obs.resumeEndPos > 0) => obs.resumePos = obs.resumeEndPos

\* C8 (as claimed): the acknowledgment handler starts playback only when the
\* buffered duration has reached 0.5 s.
C8_AutoPlayThreshold ==
  obs.resumed => obs.resumeBuffered >= MinPlayDuration

InCallback == {l \in Conns : loops[l].pc = "callback"}

\* C9 (as claimed): the callback is never running twice at once, and it is
\* invoked for the frames of a connection once each, in their arrival order.
C9_CallbackSerialInOrder ==
  /\ Cardinality(InCallback) <= 1
  /\ \A i, j \in 1..Len(delivered) :
        (i < j /\ delivered[i].c = delivered[j].c)
          => delivered[i].f < delivered[j].f

\* C10 (as claimed): two transport writes of Send are never in progress at
\* the same time.
C10_WritesSerialised ==
  Cardinality(Writing) <= 1

\* C11 (as claimed): when the transport write inside Send fails, the client
\* is disconnected when Send returns the error.
C11_SendFailureTearsDown ==
  [][(outcome # "SendFailed" /\ outcome' = "SendFailed") => ~isConnected']_vars

\* C12 (as claimed): once the receive loop has exited because reading from
\* the connection failed (the transport failed; nobody closed it), the client
\* is disconnected.
C12_TransportErrorDisconnects ==
  \A l \in Conns :
     (loops[l].pc = "exited" /\ loops[l].c # 0 /\ loops[l].c = conn
        /\ conns[conn].state = "failed")
       => ~isConnected

\* C13 (as claimed): a receive loop that meets a frame it cannot deserialise,
\* or an error of the callback, leaves the client disconnected when it exits,
\* and from then on the callback is invoked for no later frame of its
\* connection.
C13_FaultStopsDelivery ==
  [][/\ \A l \in Conns :
          (loops[l].pc = "fault" /\ loops'[l].pc = "faulted") => ~isConnected'
     /\ \A l \in Conns :
          loops[l].pc = "faulted"
            => \A i \in (Len(delivered) + 1)..Len(delivered') :
                  ~(delivered'[i].c = loops[l].c /\ delivered'[i].f > loops[l].f)]_vars

Exited(l) == loops[l].pc \in {"exited", "faulted"}

\* C14 (as claimed): Disconnect on a disconnected client changes nothing, and
\* after the callback has called Disconnect and returned, the receive loop
\* exits: its next test of IsConnected ends it.
C14_DisconnectFromCallback ==
  [][/\ (~isConnected /\ ~isConnected') => (conn' = conn /\ conns' = conns)
     /\ \A l \in Conns :
          (loops[l].pc = "check" /\ loops[l].disc /\ loops'[l].pc # "check")
            => loops'[l].pc = "exited"]_vars

\* C15 (as claimed): Wait never returns while the receive loop of the
\* connection it waits for is still running.
C15_WaitOutlastsLoop ==
  [][\A p \in Callers :
       (callers[p].pc = "waiting" /\ callers'[p].pc = "idle")
         => Exited(callers[p].wref)]_vars

\* C16: while the client is connected no call dials, replaces the connection
\* or the WaitGroup, or starts a receive loop: a Connect on a connected
\* client returns without any of these.
C16_ConnectIdempotent ==
  [][isConnected =>
       /\ nConns' = nConns /\ conn' = conn /\ wg' = wg
       /\ \A p \in Callers : callers'[p].pc # "dialing"
       /\ \A l \in Conns : loops[l].pc = "none" => loops'[l].pc = "none"]_vars

\* A Connect was called on the connected client, which is still connected
\* after a receive loop has read from the connection.
C16_Witness ==
  /\ outcome = "ConnectNoop"
  /\ isConnected
  /\ \E l \in Conns : loops[l].pc = "reading"

\* C17: no write is in progress on a client that is not connected, and the
\* Send that fails with "not connected" finds the client disconnected and
\* changes neither the transport's input nor the client.
C17_SendNotConnected ==
  /\ [](Writing # {} => isConnected)
  /\ [][(outcome # "SendNotConnected" /\ outcome' = "SendNotConnected")
         => /\ ~isConnected /\ ~isConnected'
            /\ UNCHANGED <<conn, conns, wg, lock, callers, wire, nSent>>]_vars

\* A Send failed with "not connected" after a Disconnect, with earlier
\* events on the wire.
C17_Witness ==
  /\ outcome = "SendNotConnected"
  /\ ~isConnected
  /\ nConns > 0
  /\ Len(wire) > 0

\* C18 (as claimed): the events one caller sends reach the transport, each of
\* them whole, in the order of its calls of Send.
C18_SendOrder ==
  /\ panicked # "concurrent write to websocket connection"
  /\ \A i \in 1..Len(wire) : wire[i].intact
  /\ \A i, j \in 1..Len(wire) :
        (i < j /\ wire[i].p = wire[j].p) => wire[i].ev < wire[j].ev

\* C19 (as claimed): the timestamp transmitted is the clock's if the caller
\* set none (left it 0), and the caller's if the caller set one.
C19_StampsIffUnset ==
  \A i \in 1..Len(wire) :
     wire[i].ts = IF wire[i].given = 0 THEN UnixMilliNow ELSE wire[i].given

\* C19 (amended): the timestamp transmitted is the caller's if it is
\* positive, and the clock's otherwise (not set, or negative).
C19_StampsIffNotPositive ==
  \A i \in 1..Len(wire) :
     /\ wire[i].given > 0 => wire[i].ts = wire[i].given
     /\ wire[i].given <= 0 => wire[i].ts = UnixMilliNow

\* Events with a timestamp of each kind have been transmitted.
C19_Witness ==
  /\ \E i \in 1..Len(wire) : wire[i].given > 0
  /\ \E i \in 1..Len(wire) : wire[i].given <= 0

\* The frames a through b of the microphone's stream.
FramesFromTo(a, b) == [i \in 1..(b - a + 1) |-> a + i - 1]

Max(a, b) == IF a >= b THEN a ELSE b

\* C20 (as claimed): when no transition was vetoed, the segment of the
\* utterance that started at frame k is the PreRollDepth frames before k (or
\* all the frames since the utterance before it, if fewer), then the frames
\* from k on, each once and in order.
C20_PreRoll ==
  (speeching /\ ~speechStart /\ vadLog.startFrame > 0
     /\ ~vadLog.stray /\ ~vadLog.vetoed)
    => recordPCMPart =
         FramesFromTo(Max(vadLog.startFrame - PreRollDepth, vadLog.idleFrom),
                      nFrames)

\* C21 (as claimed): the segment an utterance ends with was built after that
\* utterance started: it holds no frame from before the end of the utterance
\* before it, and no frame twice.
C21_FreshBody ==
  /\ \A i \in 1..Len(vadLog.sealed) : vadLog.sealed[i] >= vadLog.sealedFrom
  /\ \A i, j \in 1..Len(vadLog.sealed) :
        i # j => vadLog.sealed[i] # vadLog.sealed[j]

\* C22: a speech-start signal that the veto hook cancels changes nothing:
\* the speaking flag, the first-frame flag, the pre-roll and the segment are
\* what they were (the segmenter stays Idle if it was), and onSpeechStart
\* has not run.
C22_VetoedStartChangesNothing ==
  [][(micSignal = "start" /\ vadLog'.last = "startVetoed")
       => /\ speeching' = speeching
          /\ speechStart' = speechStart
          /\ aheadChunks' = aheadChunks
          /\ recordPCMPart' = recordPCMPart
          /\ vadLog'.starts = vadLog.starts]_vars

\* A speech-start signal was vetoed while Idle with frames in the pre-roll.
C22_Witness ==
  /\ vadLog.last = "startVetoed"
  /\ micSignal = "none"
  /\ ~speeching
  /\ Len(aheadChunks) > 0

\* C23 (as claimed): once capture is stopped (paused or destroyed) no
\* utterance is open: the speaking flag is false.
C23_StopEndsUtterance ==
  vadInstance # "running" => ~speeching

\* The output device is playing what the server sent: the <audio> element is
\* not paused, or the pcm-player is running with audio fed to it.
PlaybackActive ==
  IF format = "mp3" THEN ~audio.paused
  ELSE pcmPlayer.unit = "running" /\ pcmPlayer.fed # <<>>

\* C24 (as claimed): when the session is told of user speech while the
\* playback is active and interruption is allowed, it resets the player and
\* sends one response.cancel.
C24_BargeIn ==
  [][(chatLog'.speech = chatLog.speech + 1 /\ userInterrupt /\ PlaybackActive)
       => /\ chatLog'.resets = chatLog.resets + 1
          /\ chatLog'.cancels = chatLog.cancels + 1]_vars

\* C25 (as claimed): when the player is not playing, and no event of the
\* <audio> element is still to be handled, the capture gain is 1.
C25_UnityGain ==
  (~ttsPlaying /\ audio.events = <<>>) => gain = UnityGain

\* C26 (as claimed): a call of setFormat with another format empties
\* ttsChunks, and no chunk submitted before it is handed to a backend later.
C26_SwitchDiscards ==
  [][/\ chatLog'.switches = chatLog.switches + 1 => ttsChunks' = <<>>
     /\ \A i \in (Len(handed) + 1)..Len(handed') :
          handed'[i].c > chatLog.switchMark]_vars

\* C27 (as claimed): while automatic playback is switched off, the <audio>
\* element stays paused.
C27_NoAutoPlay ==
  ~playBufferedTTS => audio.paused

\* C28: pause() halts the output and leaves the bookkeeping of the chunks as
\* it is: the queue, the in-flight marker, the current MediaSource and
\* SourceBuffer and what is pending in them; and the pcm-player keeps what
\* was fed to it.
C28_PauseKeepsBookkeeping ==
  [][/\ (/\ ~audio.paused
         /\ audio'.paused
         /\ audio'.listening = audio.listening
         /\ audio'.events = Append(audio.events, "pause"))
          => /\ ~playing'
             /\ UNCHANGED <<bufferQueue, bufferUpdating, sourceBufferResolver,
                            ttsMediaSource, ttsSourceBuffer, mediaSources,
                            handed>>
     /\ (pcmPlayer.unit = "running" /\ pcmPlayer'.unit = "suspended")
          => pcmPlayer'.fed = pcmPlayer.fed]_vars

\* The player was paused while it played, with a chunk in flight and another
\* waiting in the queue.
C28_Witness ==
  /\ audio.paused
  /\ audio.listening
  /\ audio.events # <<>>
  /\ audio.events[Len(audio.events)] = "pause"
  /\ ~playing
  /\ bufferUpdating
  /\ Len(bufferQueue) > 0

\* C29: an end-of-speech or misfire signal while Speaking either is vetoed,
\* and then the segmenter stays Speaking, onSpeechEnd does not run and the
\* pre-roll and the segment are untouched; or it is not, and then the
\* segment is left as it stands, the pre-roll is empty, the speaking flag is
\* false and onSpeechEnd has run exactly once.
C29_EndOfSpeech ==
  [][(micSignal \in {"end", "misfire"} /\ speeching)
       => IF vadLog'.last = "endVetoed"
          THEN /\ speeching'
               /\ vadLog'.ends = vadLog.ends
               /\ aheadChunks' = aheadChunks
               /\ recordPCMPart' = recordPCMPart
          ELSE /\ ~speeching'
               /\ vadLog'.ends = vadLog.ends + 1
               /\ aheadChunks' = <<>>
               /\ recordPCMPart' = recordPCMPart]_vars

\* An utterance has ended with onSpeechEnd, and the end of a later one was
\* vetoed, so that it is still open.
C29_Witness ==
  /\ vadLog.last = "endVetoed"
  /\ micSignal = "none"
  /\ speeching
  /\ vadLog.ends > 0
  /\ ~vadLog.stray

\* C30 (as claimed): the segment of an utterance is the concatenation of
\* what onFrameProcess was given since the utterance started, both while
\* it is being built and once the utterance is over.
C30_ForwardedIsBody ==
  (~speeching \/ ~speechStart) => recordPCMPart = vadLog.forwarded

\* C31 (as claimed): a receive loop reads from the connection it was started
\* for and from no other, and at most one loop is reading from the current
\* connection.
C31_OneLoopPerConnection ==
  /\ \A l \in Conns : loops[l].c \in {0, l}
  /\ Cardinality({l \in Conns : loops[l].pc = "reading" /\ loops[l].c = conn}) <= 1

\* C32 (as claimed): the callback is not entered for a frame of a connection
\* that Disconnect has closed.
C32_NoCallbackAfterDisconnect ==
  [][\A i \in (Len(delivered) + 1)..Len(delivered') :
       conns[delivered'[i].c].state # "closed"]_vars

\* C33: while a Send is writing, the client is connected and its connection
\* has not been closed by Disconnect: Disconnect waits for the writes in
\* progress, and a Send that finds the client disconnected does not write.
C33_SendExcludesDisconnect ==
  Writing # {} => (isConnected /\ conns[conn].state # "closed")

\* A frame was written, Disconnect closed the connection, and a Send that
\* started afterwards was refused.
C33_Witness ==
  /\ Len(wire) > 0
  /\ ~isConnected
  /\ conn # 0 /\ conns[conn].state = "closed"
  /\ outcome = "SendNotConnected"

\* C34 (as claimed): Wait never faults, whatever the state of the client.
C34_WaitIsSafe ==
  panicked # "nil WaitGroup"

\* C35 (as claimed): an end or misfire signal that arrives while Idle calls
\* no callback and leaves the pre-roll alone, and onSpeechEnd has never run
\* more often than onSpeechStart.
C35_EndOnlyOfOpenUtterance ==
  [][/\ (micSignal \in {"end", "misfire"} /\ ~speeching)
          => (vadLog'.ends = vadLog.ends /\ aheadChunks' = aheadChunks)
     /\ vadLog'.ends <= vadLog'.starts]_vars

\* C36 (as claimed): a chunk that StreamPlayer.append has recorded in
\* ttsChunks, in arrival order, was handed to the backend or queued for it.
C36_NoChunkLost ==
  [][nSubmitted' = nSubmitted + 1
       => /\ ttsChunks' = Append(ttsChunks, nSubmitted + 1)
               => \/ \E i \in 1..Len(handed') : handed'[i].c = nSubmitted + 1
                  \/ \E i \in 1..Len(bufferQueue') :
                       bufferQueue'[i] = nSubmitted + 1
                  \/ \E i \in 1..Len(pcmPlayer'.fed) :
                       pcmPlayer'.fed[i] = nSubmitted + 1]_vars
====
